---- MODULE Spec2Model ----
(***************************************************************************)
(* Model of datahub/utilities/sql_parser.py: the SQLParser engines         *)
(* (MetadataSQLSQLParser, SqlLineageSQLParser, DefaultSQLParser), the text *)
(* rewriting their constructors apply to the query, and the scoped         *)
(* monkey patch around the lineage analysis.                               *)
(*                                                                         *)
(* Text is a sequence of one-character strings, so that the regular        *)
(* expressions of the constructors act on characters as re.sub does.       *)
(***************************************************************************)
EXTENDS Integers, Sequences, FiniteSets, TLC

----------------------------------------------------------------------------
(* Characters and character classes used by the regular expressions.        *)

UpperChars == <<"A","B","C","D","E","F","G","H","I","J","K","L","M",
                "N","O","P","Q","R","S","T","U","V","W","X","Y","Z">>
LowerChars == <<"a","b","c","d","e","f","g","h","i","j","k","l","m",
                "n","o","p","q","r","s","t","u","v","w","x","y","z">>
DigitChars == <<"0","1","2","3","4","5","6","7","8","9">>

UpperSet == {UpperChars[i] : i \in 1..26}
LowerSet == {LowerChars[i] : i \in 1..26}
DigitSet == {DigitChars[i] : i \in 1..10}

\* [a-zA-Z]
IsAlpha(c) == c \in UpperSet \cup LowerSet

\* \w : the characters on the word side of a \b boundary
IsWordChar(c) == c \in UpperSet \cup LowerSet \cup DigitSet \cup {"_"}

\* \s
IsSpace(c) == c \in {" ", "\n", "\t"}

\* str.lower() on one character (also the folding of re.IGNORECASE)
LowerChar(c) ==
    IF c \in UpperSet
    THEN LowerChars[CHOOSE i \in 1..26 : UpperChars[i] = c]
    ELSE c

ToLower(s) == [i \in 1..Len(s) |-> LowerChar(s[i])]

----------------------------------------------------------------------------
(* The literal tokens of the source.                                        *)

DATE_SWAP_TOKEN == <<"_","_","d","_","a","_","t","_","e">>
TIMESTAMP_SWAP_TOKEN ==
    <<"_","_","t","_","i","_","m","_","e","_","s","_","t","_","a","_","m","_","p">>
MYVIEW_SQL_TABLE_NAME_TOKEN ==
    <<"_","_","m","y","_","v","i","e","w","_","_",".",
      "_","_","s","q","l","_","t","a","b","l","e","_","n","a","m","e","_","_">>
MYVIEW_LOOKER_TOKEN ==
    <<"m","y","_","v","i","e","w",".",
      "S","Q","L","_","T","A","B","L","E","_","N","A","M","E">>

W_date == <<"d","a","t","e">>
W_timestamp == <<"t","i","m","e","s","t","a","m","p">>
W_lateral_flatten == <<"l","a","t","e","r","a","l"," ","f","l","a","t","t","e","n">>
W_encode_sp == <<"e","n","c","o","d","e"," ">>
W_default_prefix == <<"<","d","e","f","a","u","l","t",">">>
W_open == <<"$","{">>
W_close == <<"}">>

----------------------------------------------------------------------------
(* String primitives: `in`, str.find, slicing, and re.sub for the patterns  *)
(* the constructors use.                                                    *)

\* s[i:] starts with p
MatchAt(s, i, p) ==
    /\ i >= 1
    /\ i + Len(p) - 1 <= Len(s)
    /\ \A k \in 1..Len(p) : s[i + k - 1] = p[k]

\* the same under re.IGNORECASE (p is given in lower case)
MatchAtCI(s, i, p) ==
    /\ i >= 1
    /\ i + Len(p) - 1 <= Len(s)
    /\ \A k \in 1..Len(p) : LowerChar(s[i + k - 1]) = p[k]

\* p in s
Contains(s, p) == \E i \in 1..Len(s) : MatchAt(s, i, p)

\* s.find(p), 1-based; 0 when absent
Find(s, p) ==
    IF Contains(s, p)
    THEN CHOOSE i \in 1..Len(s) :
            MatchAt(s, i, p) /\ \A j \in 1..(i - 1) : ~MatchAt(s, j, p)
    ELSE 0

\* \b at the gap before position i (between s[i-1] and s[i])
WordBoundary(s, i) ==
    LET before == i > 1 /\ i - 1 <= Len(s) /\ IsWordChar(s[i - 1])
        after  == i >= 1 /\ i <= Len(s) /\ IsWordChar(s[i])
    IN  before # after

\* length of the match of  \bword\b  (IGNORECASE) at i, 0 when none
WordMatchLen(s, i, word) ==
    IF /\ MatchAtCI(s, i, word)
       /\ WordBoundary(s, i)
       /\ WordBoundary(s, i + Len(word))
    THEN Len(word)
    ELSE 0

\* number of characters of [a-zA-Z]* matched from position i
RECURSIVE AlphaRun(_, _)
AlphaRun(s, i) ==
    IF i <= Len(s) /\ IsAlpha(s[i]) THEN 1 + AlphaRun(s, i + 1) ELSE 0

\* length of the match of  \sencode [a-zA-Z]*  at i, 0 when none
EncodeMatchLen(s, i, ignorecase) ==
    IF /\ i <= Len(s)
       /\ IsSpace(s[i])
       /\ IF ignorecase THEN MatchAtCI(s, i + 1, W_encode_sp)
                        ELSE MatchAt(s, i + 1, W_encode_sp)
    THEN 1 + Len(W_encode_sp) + AlphaRun(s, i + 1 + Len(W_encode_sp))
    ELSE 0

\* length of the match of  \sdate\s  at i, 0 when none
SpacedDateMatchLen(s, i) ==
    IF /\ i + Len(W_date) + 1 <= Len(s)
       /\ IsSpace(s[i])
       /\ MatchAt(s, i + 1, W_date)
       /\ IsSpace(s[i + Len(W_date) + 1])
    THEN Len(W_date) + 2
    ELSE 0

\* end of the line holding position i ('.' does not match a newline)
LineEnd(s, i) ==
    IF \E j \in i..Len(s) : s[j] = "\n"
    THEN (CHOOSE j \in i..Len(s) :
            s[j] = "\n" /\ \A k \in i..(j - 1) : s[k] # "\n") - 1
    ELSE Len(s)

\* position of the '}' closing the greedy match of  (\${)(.+)(})  at i,
\* 0 when the pattern does not match at i
TemplateClose(s, i) ==
    IF MatchAt(s, i, W_open)
    THEN LET cands == {j \in (i + 3)..LineEnd(s, i) : s[j] = "}"}
         IN  IF cands = {} THEN 0
             ELSE CHOOSE j \in cands : \A k \in cands : k <= j
    ELSE 0

----------------------------------------------------------------------------
(* re.sub: leftmost, non-overlapping matches, scanning from position i.     *)
(* The text between two matches is copied as it stands.                     *)

\* the leftmost of the positions S, 0 when there is none
Leftmost(S) == IF S = {} THEN 0 ELSE CHOOSE i \in S : \A j \in S : i <= j

\* re.sub(r"(\bword\b)", repl, s, flags=re.IGNORECASE)
RECURSIVE SubWordFrom(_, _, _, _)
SubWordFrom(s, i, word, repl) ==
    LET m == Leftmost({k \in i..Len(s) : WordMatchLen(s, k, word) > 0})
    IN  IF m = 0 THEN SubSeq(s, i, Len(s))
        ELSE SubSeq(s, i, m - 1) \o repl
                \o SubWordFrom(s, m + Len(word), word, repl)

SubWord(s, word, repl) == SubWordFrom(s, 1, word, repl)

\* re.sub(literal, repl, s)
RECURSIVE SubLiteralFrom(_, _, _, _)
SubLiteralFrom(s, i, lit, repl) ==
    LET m == Leftmost({k \in i..Len(s) : MatchAt(s, k, lit)})
    IN  IF m = 0 THEN SubSeq(s, i, Len(s))
        ELSE SubSeq(s, i, m - 1) \o repl
                \o SubLiteralFrom(s, m + Len(lit), lit, repl)

SubLiteral(s, lit, repl) == SubLiteralFrom(s, 1, lit, repl)

\* re.sub(r"\sencode [a-zA-Z]*", "", s[, flags=re.IGNORECASE])
RECURSIVE SubEncodeFrom(_, _, _)
SubEncodeFrom(s, i, ignorecase) ==
    LET m == Leftmost({k \in i..Len(s) : EncodeMatchLen(s, k, ignorecase) > 0})
    IN  IF m = 0 THEN SubSeq(s, i, Len(s))
        ELSE SubSeq(s, i, m - 1)
                \o SubEncodeFrom(s, m + EncodeMatchLen(s, m, ignorecase),
                                 ignorecase)

SubEncode(s, ignorecase) == SubEncodeFrom(s, 1, ignorecase)

\* re.sub(r"\sdate\s", " __d_a_t_e ", s)
RECURSIVE SubSpacedDateFrom(_, _)
SubSpacedDateFrom(s, i) ==
    LET m == Leftmost({k \in i..Len(s) : SpacedDateMatchLen(s, k) > 0})
    IN  IF m = 0 THEN SubSeq(s, i, Len(s))
        ELSE SubSeq(s, i, m - 1) \o (<<" ">> \o DATE_SWAP_TOKEN \o <<" ">>)
                \o SubSpacedDateFrom(s, m + SpacedDateMatchLen(s, m))

SubSpacedDate(s) == SubSpacedDateFrom(s, 1)

\* re.sub(r"(\${)(.+)(})", r"\2", s): the greedy (.+) runs to the last '}'
\* of the line
RECURSIVE SubTemplateFrom(_, _)
SubTemplateFrom(s, i) ==
    LET m == Leftmost({k \in i..Len(s) : TemplateClose(s, k) > 0})
    IN  IF m = 0 THEN SubSeq(s, i, Len(s))
        ELSE SubSeq(s, i, m - 1) \o SubSeq(s, m + 2, TemplateClose(s, m) - 1)
                \o SubTemplateFrom(s, TemplateClose(s, m) + 1)

SubTemplate(s) == SubTemplateFrom(s, 1)

\* sql_query[: sql_query.find("lateral flatten")] when the marker is present
TruncateLateralFlatten(s) ==
    IF Contains(s, W_lateral_flatten)
    THEN SubSeq(s, 1, Find(s, W_lateral_flatten) - 1)
    ELSE s

\* str.strip()
RECURSIVE LStrip(_)
LStrip(s) == IF s # <<>> /\ IsSpace(Head(s)) THEN LStrip(Tail(s)) ELSE s
RECURSIVE RStrip(_)
RStrip(s) ==
    IF s # <<>> /\ IsSpace(s[Len(s)]) THEN RStrip(SubSeq(s, 1, Len(s) - 1)) ELSE s
Strip(s) == RStrip(LStrip(s))

----------------------------------------------------------------------------
(* The rewriting of the query text in the two constructors.                 *)

\* MetadataSQLSQLParser.__init__: the text handed to MetadataSQLParser
MetadataRewrite(sql_query) ==
    SubEncode(SubSpacedDate(TruncateLateralFlatten(sql_query)), FALSE)

\* SqlLineageSQLParser.__init__: the value of self._sql
SqlLineageRewrite(sql_query) ==
    LET q1 == TruncateLateralFlatten(sql_query)
        q2 == SubWord(q1, W_date, DATE_SWAP_TOKEN)
        q3 == SubLiteral(q2, W_open \o MYVIEW_LOOKER_TOKEN \o W_close,
                         MYVIEW_SQL_TABLE_NAME_TOKEN)
        q4 == SubWord(q3, W_timestamp, TIMESTAMP_SWAP_TOKEN)
        q5 == SubEncode(q4, TRUE)
    IN  SubTemplate(q5)

----------------------------------------------------------------------------
(* Ordering of strings, as list.sort() orders str values (by code point).   *)

\* the printable ASCII characters that occur in the modelled texts, in
\* code-point order (quote, backslash and backquote are left out)
AsciiChars ==
    <<
      " ","!","#","$","%","&","'","(",")","*","+",",","-",".","/",
      "0","1","2","3","4","5","6","7","8","9",":",";","<","=",">","?",
      "@","A","B","C","D","E","F","G","H","I","J","K","L","M","N","O",
      "P","Q","R","S","T","U","V","W","X","Y","Z","[","]","^","_",
      "a","b","c","d","e","f","g","h","i","j","k","l","m","n","o",
      "p","q","r","s","t","u","v","w","x","y","z","{","|","}","~">>

\* rank of a character in code-point order
Ord(c) == IF c = "\t" THEN 1 ELSE IF c = "\n" THEN 2
          ELSE 2 + CHOOSE i \in 1..Len(AsciiChars) : AsciiChars[i] = c

\* a < b for str
RECURSIVE StrLess(_, _)
StrLess(a, b) ==
    IF b = <<>> THEN FALSE
    ELSE IF a = <<>> THEN TRUE
    ELSE IF Head(a) = Head(b) THEN StrLess(Tail(a), Tail(b))
    ELSE Ord(Head(a)) < Ord(Head(b))

StrLeq(a, b) == a = b \/ StrLess(a, b)

\* insertion of x into the sorted list l, after its equals (the sort is stable)
RECURSIVE InsertSorted(_, _)
InsertSorted(l, x) ==
    IF l = <<>> THEN <<x>>
    ELSE IF StrLess(x, Head(l)) THEN <<x>> \o l
    ELSE <<Head(l)>> \o InsertSorted(Tail(l), x)

\* list.sort() on a list of str
RECURSIVE ListSort(_)
ListSort(l) ==
    IF l = <<>> THEN <<>>
    ELSE InsertSorted(ListSort(SubSeq(l, 1, Len(l) - 1)), l[Len(l)])

IsSorted(l) == \A i \in 1..(Len(l) - 1) : StrLeq(l[i], l[i + 1])
NoDuplicates(l) == \A i, j \in 1..Len(l) : i # j => l[i] # l[j]
Range(l) == {l[i] : i \in 1..Len(l)}

\* the lists that hold the elements of the set S once each: the orders in
\* which iterating a Python set can deliver them
Orderings(S) ==
    {l \in [1..Cardinality(S) -> S] : \A x \in S : \E i \in 1..Cardinality(S) : l[i] = x}

----------------------------------------------------------------------------
(* The third-party parsers (sqlparse, sqllineage, sql_metadata) are called  *)
(* by the source and are not part of it.  They are represented by a small   *)
(* reader of statements of the shape                                        *)
(*     select <item> [as <alias>], ... from <table> [join <table>] [on <column>] *)
(* separated by ';', which reports the names exactly as they stand in the   *)
(* text it is handed.                                                       *)

W_select == <<"s","e","l","e","c","t">>
W_from == <<"f","r","o","m">>
W_join == <<"j","o","i","n">>
W_on == <<"o","n">>
W_as == <<"a","s">>
W_NULL == <<"N","U","L","L">>

IsDelim(c) == IsSpace(c) \/ c = ","

\* the text up to the first ';' and the text after it
RECURSIVE SplitStatements(_)
SplitStatements(s) ==
    IF \E i \in 1..Len(s) : s[i] = ";"
    THEN LET i == CHOOSE k \in 1..Len(s) :
                     s[k] = ";" /\ \A j \in 1..(k - 1) : s[j] # ";"
         IN  <<SubSeq(s, 1, i - 1)>> \o SplitStatements(SubSeq(s, i + 1, Len(s)))
    ELSE <<s>>

\* the words of a statement: maximal runs of characters other than blanks
\* and commas
RECURSIVE TokensFrom(_, _)
TokensFrom(s, i) ==
    LET start == Leftmost({k \in i..Len(s) : ~IsDelim(s[k])})
        stop  == Leftmost({k \in start..Len(s) : IsDelim(s[k])})
        end   == IF stop = 0 THEN Len(s) ELSE stop - 1
    IN  IF start = 0 THEN <<>>
        ELSE <<SubSeq(s, start, end)>> \o TokensFrom(s, end + 1)

Tokens(s) == TokensFrom(s, 1)

\* the list without the elements that fail Keep
RECURSIVE FilterKeep(_, _)
FilterKeep(l, keep) ==
    IF l = <<>> THEN <<>>
    ELSE (IF Head(l) \in keep THEN <<Head(l)>> ELSE <<>>) \o FilterKeep(Tail(l), keep)

\* the list with every element kept at its first occurrence only
RECURSIVE Unique(_)
Unique(l) ==
    IF l = <<>> THEN <<>>
    ELSE LET init == Unique(SubSeq(l, 1, Len(l) - 1))
         IN  IF l[Len(l)] \in Range(init) THEN init ELSE Append(init, l[Len(l)])

\* index of the first token equal (ignoring case) to the keyword kw at or
\* after position from; Len(toks) + 1 when there is none
KeywordIndex(toks, kw, from) ==
    IF \E i \in from..Len(toks) : ToLower(toks[i]) = kw
    THEN CHOOSE i \in from..Len(toks) :
            ToLower(toks[i]) = kw /\ \A j \in from..(i - 1) : ToLower(toks[j]) # kw
    ELSE Len(toks) + 1

\* the part of a dotted name after its last '.', and the part before it
LastDot(name) ==
    IF \E i \in 1..Len(name) : name[i] = "."
    THEN CHOOSE i \in 1..Len(name) :
            name[i] = "." /\ \A j \in (i + 1)..Len(name) : name[j] # "."
    ELSE 0
BaseName(name) == SubSeq(name, LastDot(name) + 1, Len(name))
Qualifier(name) == SubSeq(name, 1, LastDot(name) - 1)

\* the elements of a set of integers in ascending order
RECURSIVE ListSortInts(_)
ListSortInts(S) ==
    IF S = {} THEN <<>>
    ELSE LET m == CHOOSE x \in S : \A y \in S : x <= y
         IN  <<m>> \o ListSortInts(S \ {m})

\* what the reader finds in one statement:
\*   items    the select list, each [expr, alias] (alias <<>> when absent)
\*   tables   the table references after FROM, in order
\*   joincols the columns of the ON clause
ReadStatement(stmt) ==
    LET toks == Tokens(stmt)
        n == Len(toks)
        isSelect == n >= 1 /\ ToLower(toks[1]) = W_select
        f == KeywordIndex(toks, W_from, 2)
        o == KeywordIndex(toks, W_on, f + 1)
        isAs(i) == i >= 2 /\ i <= n /\ ToLower(toks[i]) = W_as
        itemIdx == {i \in 2..(f - 1) : ~isAs(i) /\ ~isAs(i - 1)}
        idxSeq == ListSortInts(itemIdx)
    IN  IF ~isSelect
        THEN [items |-> <<>>, tables |-> <<>>, joincols |-> <<>>]
        ELSE [items |->
                [k \in 1..Len(idxSeq) |->
                    [expr |-> toks[idxSeq[k]],
                     alias |-> IF isAs(idxSeq[k] + 1) /\ idxSeq[k] + 2 <= f - 1
                               THEN toks[idxSeq[k] + 2] ELSE <<>>]],
              tables |->
                FilterKeep(SubSeq(toks, f + 1, o - 1),
                           {t \in Range(SubSeq(toks, f + 1, o - 1)) : ToLower(t) # W_join}),
              joincols |-> SubSeq(toks, o + 1, n)]

\* str(table) of the Table the lineage analyzer builds for a reference:
\* lower-cased, in schema <default> when the reference names no schema
TableStr(ref) ==
    IF LastDot(ref) > 0 THEN ToLower(ref)
    ELSE W_default_prefix \o <<".">> \o ToLower(ref)

TableNode(ref) == [kind |-> "Table", parent |-> <<>>, raw_name |-> TableStr(ref)]

\* the Column a select item reads: its parent is the table that qualifies it,
\* or the first table of the statement
SourceColumn(item, tables) ==
    [kind |-> "Column",
     parent |-> IF LastDot(item.expr) > 0 THEN TableStr(Qualifier(item.expr))
                ELSE TableStr(tables[1]),
     raw_name |-> BaseName(item.expr)]

\* the Column a select item writes: named by its alias when it has one
TargetColumn(item) ==
    [kind |-> "Column",
     parent |-> W_default_prefix,
     raw_name |-> IF item.alias # <<>> THEN item.alias ELSE BaseName(item.expr)]

\* LineageAnalyzer().analyze(stmt): the holder of one statement.  cleanup
\* and column_lineage are the functions bound to
\* SourceHandler.end_of_query_cleanup and
\* SubQueryLineageHolder.add_column_lineage while the statement is analyzed.
Analyze(stmt, cleanup, column_lineage) ==
    LET r == ReadStatement(stmt)
        items == Range(r.items)
        tabs == Range(r.tables)
        edges == IF tabs = {} THEN {}
                 ELSE {<<SourceColumn(it, r.tables), TargetColumn(it)>> : it \in items}
                      \cup {<<[kind |-> "Table", parent |-> <<>>,
                               raw_name |-> SourceColumn(it, r.tables).parent],
                              SourceColumn(it, r.tables)>> : it \in items}
    IN  [source_tables |-> {TableStr(ref) : ref \in tabs},
         nodes |-> {TableNode(ref) : ref \in tabs}
                     \cup {TargetColumn(it) : it \in items}
                     \cup {e[1] : e \in edges} \cup {e[2] : e \in edges},
         edges |-> edges,
         analyzed_with |-> {<<cleanup, column_lineage>>}]

EmptyHolder ==
    [source_tables |-> {}, nodes |-> {}, edges |-> {}, analyzed_with |-> {}]

\* SQLLineageHolder.of(*holders): the statements' graphs merged into one
RECURSIVE HolderOf(_)
HolderOf(holders) ==
    IF holders = <<>> THEN EmptyHolder
    ELSE LET h == Head(holders)
             r == HolderOf(Tail(holders))
         IN  [source_tables |-> h.source_tables \cup r.source_tables,
              nodes |-> h.nodes \cup r.nodes,
              edges |-> h.edges \cup r.edges,
              analyzed_with |-> h.analyzed_with \cup r.analyzed_with]

\* sqlparse.parse(sqlparse.format(sql.strip(), ...)) filtered by
\* s.token_first(skip_cm=True): the statements that hold a token (the
\* queries hold no comment for format to strip and no operator to space)
ParseStatements(sql) ==
    LET all == SplitStatements(Strip(sql))
    IN  FilterKeep(all, {st \in Range(all) : Tokens(st) # <<>>})

\* sql_metadata.Parser(sql): the attributes the source reads
\*   tables                 the table names, once each, in order of appearance
\*   columns_dict           section -> columns; a section without columns is absent
\*   columns_aliases_dict   section -> aliases; None (has_aliases_dict FALSE)
\*                          when the query defines no alias
\*   columns_aliases        alias -> the column it names
MetadataSQLParser(sql) ==
    LET r == ReadStatement(sql)
        sel == [k \in 1..Len(r.items) |-> r.items[k].expr]
        aliased == {it \in Range(r.items) : it.alias # <<>>}
        aliasSeq == LET a == [k \in 1..Len(r.items) |-> r.items[k].alias]
                    IN  FilterKeep(a, Range(a) \ {<<>>})
    IN  [tables |-> Unique(r.tables),
         columns_dict |->
            [sec \in (IF sel # <<>> THEN {"select"} ELSE {})
                       \cup (IF r.joincols # <<>> THEN {"join"} ELSE {}) |->
                IF sec = "select" THEN Unique(sel) ELSE Unique(r.joincols)],
         has_aliases_dict |-> aliased # {},
         columns_aliases_dict |->
            [sec \in (IF aliased # {} THEN {"select"} ELSE {}) |-> Unique(aliasSeq)],
         columns_aliases |->
            {<<it.alias, it.expr>> : it \in aliased}]

EmptyMetadataParser ==
    [tables |-> <<>>, columns_dict |-> <<>>, has_aliases_dict |-> FALSE,
     columns_aliases_dict |-> <<>>, columns_aliases |-> {}]

----------------------------------------------------------------------------
(* The query methods.                                                       *)

\* ["date" if c == _DATE_SWAP_TOKEN else c for c in result] and its like
SwapBack(c, token, word) == IF c = token THEN word ELSE c

\* re.sub(r"^<default>.", "", str(table))
StripDefault(name) ==
    IF /\ MatchAt(name, 1, W_default_prefix)
       /\ Len(name) > Len(W_default_prefix)
       /\ name[Len(W_default_prefix) + 1] # "\n"
    THEN SubSeq(name, Len(W_default_prefix) + 2, Len(name))
    ELSE name

\* SqlLineageSQLParser.get_tables, the tables of the holder being
\* delivered in the order `order`
SqlLineage_get_tables(order) ==
    LET r0 == [i \in 1..Len(order) |-> StripDefault(order[i])]
        r1 == [i \in 1..Len(r0) |-> SwapBack(r0[i], DATE_SWAP_TOKEN, W_date)]
        r2 == [i \in 1..Len(r1) |-> SwapBack(r1[i], TIMESTAMP_SWAP_TOKEN, W_timestamp)]
        r3 == [i \in 1..Len(r2) |->
                  SwapBack(r2[i], MYVIEW_SQL_TABLE_NAME_TOKEN, MYVIEW_LOOKER_TOKEN)]
    IN  ListSort(r3)

\* any(ele in column.raw_name for ele in ["*", "(", ")"])
HasExpressionMarker(raw_name) ==
    \E i \in 1..Len(raw_name) : raw_name[i] \in {"*", "(", ")"}

\* the Column nodes of out-degree 0 in the whole graph
TargetColumns_WholeGraph(holder) ==
    {n \in holder.nodes : n.kind = "Column" /\ ~\E e \in holder.edges : e[1] = n}

\* the Column nodes of out-degree 0 in graph.subgraph(column_nodes)
TargetColumns(holder) ==
    LET column_nodes == {n \in holder.nodes : n.kind = "Column"}
        column_edges == {e \in holder.edges :
                            e[1] \in column_nodes /\ e[2] \in column_nodes}
    IN  {n \in column_nodes : ~\E e \in column_edges : e[1] = n}

\* SqlLineageSQLParser.get_columns: the set `result` that is returned as a list
SqlLineage_get_columns(holder) ==
    LET result == {n.raw_name : n \in
                     {m \in TargetColumns(holder) : ~HasExpressionMarker(m.raw_name)}}
        r1 == {SwapBack(c, DATE_SWAP_TOKEN, W_date) : c \in result}
    IN  {SwapBack(c, TIMESTAMP_SWAP_TOKEN, W_timestamp) : c \in r1}

\* MetadataSQLSQLParser.get_tables: result.sort(); return result
Metadata_get_tables(parser) == ListSort(parser.tables)

\* the loop over the select aliases: a column that an alias names is
\* replaced by the alias
RECURSIVE ApplyAliases(_, _, _)
ApplyAliases(cols, aliases, columns_aliases) ==
    IF aliases = <<>> THEN cols
    ELSE LET col_alias == Head(aliases)
             known == \E pr \in columns_aliases : pr[1] = col_alias
             col_name == (CHOOSE pr \in columns_aliases : pr[1] = col_alias)[2]
         IN  ApplyAliases(
                IF known
                THEN [i \in 1..Len(cols) |->
                        IF cols[i] = col_name THEN col_alias ELSE cols[i]]
                ELSE cols,
                Tail(aliases), columns_aliases)

\* get_columns without its test for joins
Metadata_get_columns_NoJoinTest(parser) ==
    LET select == IF "select" \in DOMAIN parser.columns_dict
                  THEN parser.columns_dict["select"] ELSE <<>>
    IN  [i \in 1..Len(select) |-> SwapBack(select[i], DATE_SWAP_TOKEN, W_date)]

\* MetadataSQLSQLParser.get_columns (the reader delivers no column that is
\* a list, so the isinstance test keeps every column)
Metadata_get_columns(parser) ==
    LET columns_dict == parser.columns_dict
        select == IF "select" \in DOMAIN columns_dict
                  THEN columns_dict["select"] ELSE <<>>
        filtered_cols == FilterKeep(select, Range(select) \ {W_NULL})
        aliases == IF parser.has_aliases_dict
                      /\ "select" \in DOMAIN parser.columns_aliases_dict
                   THEN parser.columns_aliases_dict["select"] ELSE <<>>
        swapped == ApplyAliases(filtered_cols, aliases, parser.columns_aliases)
    IN  IF "join" \in DOMAIN columns_dict
        THEN <<>>
        ELSE [i \in 1..Len(swapped) |-> SwapBack(swapped[i], DATE_SWAP_TOKEN, W_date)]

----------------------------------------------------------------------------
(* Bounds and the queries the callers pass.                                 *)

MaxItems == 1       \* select items of the first statement
MaxStmts == 2       \* statements of a query
MaxEdges == 3       \* edges of a lineage graph drawn directly
NumThreads == 2     \* callers of the concurrent specification

P_select_sp == <<"s","e","l","e","c","t"," ">>
P_sp_from_sp == <<" ","f","r","o","m"," ">>
P_comma_sp == <<","," ">>
P_semi == <<";">>

SelectItems ==
    { <<"D","a","t","e">>,
      <<"c","o","u","n","t","(","*",")">>,
      <<"x"," ","a","s"," ","d","a","t","e">> }

TableRefs ==
    { <<"t">>,
      <<"d","a","t","e">>,
      <<"s",".","d","a","t","e">>,
      <<"T","I","M","E","S","T","A","M","P">>,
      <<"$","{","v","}">>,
      W_open \o MYVIEW_LOOKER_TOKEN \o W_close }

JoinClauses ==
    { <<>>,
      <<" ","j","o","i","n"," ","u"," ","o","n"," ","k">>,
      <<" ","j","o","i","n"," ","$","{","w","}"," ","o","n"," ","k">>,
      <<" ","j","o","i","n"," ","d","a","$","{","t","e","}"," ","o","n"," ","k">> }

Tails ==
    { <<>>,
      <<" ","e","n","c","o","d","e"," ","l","z","o">>,
      <<","," ","l","a","t","e","r","a","l"," ","f","l","a","t","t","e","n","(","x",")">> }

FollowUp == <<"s","e","l","e","c","t"," ","c"," ","f","r","o","m"," ","w">>

\* the lists of 1..n select items, written with ", " between them
RECURSIVE ItemLists(_)
ItemLists(n) ==
    IF n <= 0 THEN {}
    ELSE SelectItems
         \cup {l \o P_comma_sp \o it : l \in ItemLists(n - 1), it \in SelectItems}

FirstStatements ==
    {P_select_sp \o items \o P_sp_from_sp \o ref \o join \o tail :
        items \in ItemLists(MaxItems), ref \in TableRefs,
        join \in JoinClauses, tail \in Tails}

\* what follows the first statement: nothing, a bare ';', or up to
\* MaxStmts - 1 further statements
RECURSIVE Continuations(_)
Continuations(n) ==
    IF n <= 0 THEN {<<>>, P_semi}
    ELSE Continuations(n - 1)
         \cup {c \o P_semi \o <<" ">> \o FollowUp :
                 c \in Continuations(n - 1) \ {P_semi}}

Queries == {st \o c : st \in FirstStatements, c \in Continuations(MaxStmts - 1)}

\* the sets of library calls that can raise for the query q: none, one of
\* them, or the analysis of every statement
RaiseChoices(q) ==
    LET n == Len(ParseStatements(SqlLineageRewrite(q)))
    IN  {{}} \cup {{i} : i \in 0..n} \cup {1..n}

\* the queries of the concurrent specification
ThreadQueries ==
    { <<"s","e","l","e","c","t"," ","a"," ","f","r","o","m"," ","t">>,
      <<"s","e","l","e","c","t"," ","d","a","t","e"," ","f","r","o","m"," ","t",";"," ","s","e","l","e","c","t"," ","c"," ","f","r","o","m"," ","w">> }

----------------------------------------------------------------------------
(* State.                                                                   *)

VARIABLES
    sql_query,      \* caller -> the query text it passes to the constructor
    lib_raises,     \* caller -> the library calls that raise for that query:
                    \*   i >= 1  LineageAnalyzer().analyze of statement i,
                    \*   0       SQLLineageHolder.of
    pc,             \* caller -> where it stands
    exc,            \* caller -> an exception is propagating out of the with blocks
    self,           \* caller -> the parser object it constructs
    original,       \* caller -> the attribute values its two patchers saved
    SourceHandler_end_of_query_cleanup,         \* the attribute of the library class
    SubQueryLineageHolder_add_column_lineage,   \* the attribute of the library class
    out             \* caller -> what get_tables / get_columns returned

vars == <<sql_query, lib_raises, pc, exc, self, original,
          SourceHandler_end_of_query_cleanup,
          SubQueryLineageHolder_add_column_lineage, out>>

\* the functions an attribute can be bound to: the library's own, or the one
\* of datahub.utilities.sqllineage_patch
LibraryFunction == "library"
PatchFunction == "sqllineage_patch"

NoObject ==
    [cls |-> "none", engine |-> "none", sql |-> <<>>, stmt |-> <<>>,
     stmt_holders |-> <<>>, sql_holder |-> EmptyHolder,
     parser |-> EmptyMetadataParser]

NoOutput == [tables |-> <<>>, columns |-> <<>>, calls |-> {}]

NoOriginal == [cleanup |-> "unset", column_lineage |-> "unset"]

\* DefaultSQLParser built on the light-weight engine
DefaultEngine_Metadata == "MetadataSQLSQLParser"

\* the class DefaultSQLParser.__init__ instantiates as self.parser
DefaultEngine == "SqlLineageSQLParser"

\* a patch undone only on the normal path (start/stop with no finally)
PatchExitValue_NoFinally(current, saved, raising) ==
    IF raising THEN current ELSE saved

\* what a patcher's __exit__ writes back to the attribute: the value its
\* __enter__ saved, whether or not an exception is propagating
PatchExitValue(current, saved, raising) == saved

----------------------------------------------------------------------------
(* Constructors.                                                            *)

\* SqlLineageSQLParser.__init__ up to the first with block: the rewriting
\* of the text and the split into statements
BeginSqlLineage(t, cls) ==
    LET sql == SqlLineageRewrite(sql_query[t])
    IN  /\ self' = [self EXCEPT ![t] =
                      [NoObject EXCEPT !.cls = cls,
                                       !.engine = "SqlLineageSQLParser",
                                       !.sql = sql,
                                       !.stmt = ParseStatements(sql)]]
        /\ pc' = [pc EXCEPT ![t] = "with_cleanup"]

\* MetadataSQLSQLParser.__init__
BeginMetadata(t, cls) ==
    /\ self' = [self EXCEPT ![t] =
                  [NoObject EXCEPT !.cls = cls,
                                   !.engine = "MetadataSQLSQLParser",
                                   !.sql = MetadataRewrite(sql_query[t]),
                                   !.parser = MetadataSQLParser(
                                                 MetadataRewrite(sql_query[t]))]]
    /\ pc' = [pc EXCEPT ![t] = "done"]

SqlLineageSQLParser_init(t) ==
    /\ pc[t] = "idle"
    /\ BeginSqlLineage(t, "SqlLineageSQLParser")
    /\ UNCHANGED <<sql_query, lib_raises, exc, original,
                   SourceHandler_end_of_query_cleanup,
                   SubQueryLineageHolder_add_column_lineage, out>>

MetadataSQLSQLParser_init(t) ==
    /\ pc[t] = "idle"
    /\ BeginMetadata(t, "MetadataSQLSQLParser")
    /\ UNCHANGED <<sql_query, lib_raises, exc, original,
                   SourceHandler_end_of_query_cleanup,
                   SubQueryLineageHolder_add_column_lineage, out>>

\* DefaultSQLParser.__init__: self.parser = SqlLineageSQLParser(sql_query)
DefaultSQLParser_init(t) ==
    /\ pc[t] = "idle"
    /\ IF DefaultEngine = "SqlLineageSQLParser"
       THEN BeginSqlLineage(t, "DefaultSQLParser")
       ELSE BeginMetadata(t, "DefaultSQLParser")
    /\ UNCHANGED <<sql_query, lib_raises, exc, original,
                   SourceHandler_end_of_query_cleanup,
                   SubQueryLineageHolder_add_column_lineage, out>>

\* with unittest.mock.patch("...SourceHandler.end_of_query_cleanup", ...):
\* __enter__ saves the attribute and binds the patch
EnterCleanupPatch(t) ==
    /\ pc[t] = "with_cleanup"
    /\ original' = [original EXCEPT ![t].cleanup = SourceHandler_end_of_query_cleanup]
    /\ SourceHandler_end_of_query_cleanup' = PatchFunction
    /\ pc' = [pc EXCEPT ![t] = "with_column_lineage"]
    /\ UNCHANGED <<sql_query, lib_raises, exc, self,
                   SubQueryLineageHolder_add_column_lineage, out>>

\* with unittest.mock.patch("...SubQueryLineageHolder.add_column_lineage", ...)
EnterColumnLineagePatch(t) ==
    /\ pc[t] = "with_column_lineage"
    /\ original' = [original EXCEPT
                      ![t].column_lineage = SubQueryLineageHolder_add_column_lineage]
    /\ SubQueryLineageHolder_add_column_lineage' = PatchFunction
    /\ pc' = [pc EXCEPT ![t] = "analyze"]
    /\ UNCHANGED <<sql_query, lib_raises, exc, self,
                   SourceHandler_end_of_query_cleanup, out>>

\* one element of [LineageAnalyzer().analyze(stmt) for stmt in self._stmt]:
\* the analysis runs the functions the two attributes are bound to at that
\* moment; an exception leaves the with blocks
AnalyzeStatement(t) ==
    LET i == Len(self[t].stmt_holders) + 1
    IN  /\ pc[t] = "analyze"
        /\ i <= Len(self[t].stmt)
        /\ IF i \in lib_raises[t]
           THEN /\ exc' = [exc EXCEPT ![t] = TRUE]
                /\ pc' = [pc EXCEPT ![t] = "exit_column_lineage"]
                /\ self' = self
           ELSE /\ self' = [self EXCEPT ![t].stmt_holders =
                              Append(@, Analyze(self[t].stmt[i],
                                                SourceHandler_end_of_query_cleanup,
                                                SubQueryLineageHolder_add_column_lineage))]
                /\ UNCHANGED <<exc, pc>>
        /\ UNCHANGED <<sql_query, lib_raises, original,
                       SourceHandler_end_of_query_cleanup,
                       SubQueryLineageHolder_add_column_lineage, out>>

\* self._sql_holder = SQLLineageHolder.of(*self._stmt_holders)
MergeHolders(t) ==
    /\ pc[t] = "analyze"
    /\ Len(self[t].stmt_holders) = Len(self[t].stmt)
    /\ IF 0 \in lib_raises[t]
       THEN /\ exc' = [exc EXCEPT ![t] = TRUE]
            /\ self' = self
       ELSE /\ self' = [self EXCEPT ![t].sql_holder = HolderOf(self[t].stmt_holders)]
            /\ exc' = exc
    /\ pc' = [pc EXCEPT ![t] = "exit_column_lineage"]
    /\ UNCHANGED <<sql_query, lib_raises, original,
                   SourceHandler_end_of_query_cleanup,
                   SubQueryLineageHolder_add_column_lineage, out>>

\* __exit__ of the inner with block
ExitColumnLineagePatch(t) ==
    /\ pc[t] = "exit_column_lineage"
    /\ SubQueryLineageHolder_add_column_lineage' =
          PatchExitValue(SubQueryLineageHolder_add_column_lineage,
                         original[t].column_lineage, exc[t])
    /\ pc' = [pc EXCEPT ![t] = "exit_cleanup"]
    /\ UNCHANGED <<sql_query, lib_raises, exc, self, original,
                   SourceHandler_end_of_query_cleanup, out>>

\* __exit__ of the outer with block; the constructor then returns, or the
\* exception reaches the caller
ExitCleanupPatch(t) ==
    /\ pc[t] = "exit_cleanup"
    /\ SourceHandler_end_of_query_cleanup' =
          PatchExitValue(SourceHandler_end_of_query_cleanup,
                         original[t].cleanup, exc[t])
    /\ pc' = [pc EXCEPT ![t] = IF exc[t] THEN "raised" ELSE "done"]
    /\ UNCHANGED <<sql_query, lib_raises, exc, self, original,
                   SubQueryLineageHolder_add_column_lineage, out>>

----------------------------------------------------------------------------
(* Query methods, on a constructed object.  DefaultSQLParser hands each     *)
(* call to self.parser.                                                     *)

get_tables(t) ==
    /\ pc[t] = "done"
    /\ IF self[t].engine = "SqlLineageSQLParser"
       THEN /\ \E order \in Orderings(self[t].sql_holder.source_tables) :
                 out' = [out EXCEPT ![t].tables = SqlLineage_get_tables(order),
                                    ![t].calls = @ \cup {"get_tables"}]
            /\ self' = self
       ELSE /\ out' = [out EXCEPT ![t].tables = Metadata_get_tables(self[t].parser),
                                  ![t].calls = @ \cup {"get_tables"}]
            \* result.sort() sorts the list the parser holds
            /\ self' = [self EXCEPT ![t].parser.tables =
                          Metadata_get_tables(self[t].parser)]
    /\ UNCHANGED <<sql_query, lib_raises, pc, exc, original,
                   SourceHandler_end_of_query_cleanup,
                   SubQueryLineageHolder_add_column_lineage>>

get_columns(t) ==
    /\ pc[t] = "done"
    /\ IF self[t].engine = "SqlLineageSQLParser"
       THEN \E order \in Orderings(SqlLineage_get_columns(self[t].sql_holder)) :
                 out' = [out EXCEPT ![t].columns = order,
                                    ![t].calls = @ \cup {"get_columns"}]
       ELSE out' = [out EXCEPT ![t].columns = Metadata_get_columns(self[t].parser),
                               ![t].calls = @ \cup {"get_columns"}]
    /\ UNCHANGED <<sql_query, lib_raises, pc, exc, self, original,
                   SourceHandler_end_of_query_cleanup,
                   SubQueryLineageHolder_add_column_lineage>>

\* the caller drops the object (or has caught the exception) and is free
\* to construct another parser for its query
Discard(t) ==
    /\ pc[t] \in {"done", "raised"}
    /\ pc' = [pc EXCEPT ![t] = "idle"]
    /\ exc' = [exc EXCEPT ![t] = FALSE]
    /\ self' = [self EXCEPT ![t] = NoObject]
    /\ original' = [original EXCEPT ![t] = NoOriginal]
    /\ out' = [out EXCEPT ![t] = NoOutput]
    /\ UNCHANGED <<sql_query, lib_raises,
                   SourceHandler_end_of_query_cleanup,
                   SubQueryLineageHolder_add_column_lineage>>

----------------------------------------------------------------------------
(* Specifications.                                                          *)

InitCommon(threads) ==
    /\ pc = [t \in threads |-> "idle"]
    /\ exc = [t \in threads |-> FALSE]
    /\ self = [t \in threads |-> NoObject]
    /\ original = [t \in threads |-> NoOriginal]
    /\ out = [t \in threads |-> NoOutput]
    /\ SourceHandler_end_of_query_cleanup = LibraryFunction
    /\ SubQueryLineageHolder_add_column_lineage = LibraryFunction

\* One caller: it constructs parsers of the three classes for its query and
\* calls their methods.
Init ==
    /\ \E q \in Queries :
          /\ sql_query = [t \in {1} |-> q]
          /\ lib_raises \in [{1} -> RaiseChoices(q)]
    /\ InitCommon({1})

SqlLineageStep(t) ==
    \/ EnterCleanupPatch(t)
    \/ EnterColumnLineagePatch(t)
    \/ AnalyzeStatement(t)
    \/ MergeHolders(t)
    \/ ExitColumnLineagePatch(t)
    \/ ExitCleanupPatch(t)

Next ==
    \E t \in {1} :
        \/ SqlLineageSQLParser_init(t)
        \/ MetadataSQLSQLParser_init(t)
        \/ DefaultSQLParser_init(t)
        \/ SqlLineageStep(t)
        \/ get_tables(t)
        \/ get_columns(t)
        \/ Discard(t)

Spec == Init /\ [][Next]_vars

\* NumThreads callers construct SqlLineageSQLParser objects concurrently,
\* with no synchronization between them.
InitThreads ==
    /\ sql_query \in [1..NumThreads -> ThreadQueries]
    /\ lib_raises \in [1..NumThreads -> {{}, {1}}]
    /\ InitCommon(1..NumThreads)

NextThreads ==
    \E t \in 1..NumThreads :
        \/ SqlLineageSQLParser_init(t)
        \/ SqlLineageStep(t)
        \/ Discard(t)

SpecThreads == InitThreads /\ [][NextThreads]_vars

\* Lineage graphs drawn directly: the holder a constructed
\* SqlLineageSQLParser keeps may hold any graph over Table and Column nodes.
Col(parent, raw_name) == [kind |-> "Column", parent |-> parent, raw_name |-> raw_name]

N_t_b == Col(<<"<","d","e","f","a","u","l","t",">",".","t">>, <<"b">>)
N_b == Col(W_default_prefix, <<"b">>)
N_count == Col(W_default_prefix, <<"c","o","u","n","t","(","*",")">>)
N_date == Col(W_default_prefix, DATE_SWAP_TOKEN)
N_u_a == Col(<<"s",".","u">>, <<"a">>)
N_table == [kind |-> "Table", parent |-> <<>>, raw_name |-> <<"<","d","e","f","a","u","l","t",">",".","t">>]

GraphEdges ==
    { <<N_t_b, N_b>>, <<N_t_b, N_count>>, <<N_b, N_date>>, <<N_u_a, N_date>>,
      <<N_table, N_t_b>>, <<N_date, N_table>>, <<N_count, N_table>> }

GraphHolders ==
    { [source_tables |-> {n.raw_name : n \in {m \in nodes : m.kind = "Table"}},
       nodes |-> nodes \cup {e[1] : e \in edges} \cup {e[2] : e \in edges},
       edges |-> edges,
       analyzed_with |-> {<<PatchFunction, PatchFunction>>}] :
         nodes \in SUBSET {N_b, N_count, N_date, N_u_a},
         edges \in {E \in SUBSET GraphEdges : Cardinality(E) <= MaxEdges} }

InitGraph ==
    /\ sql_query = [t \in {1} |-> <<>>]
    /\ lib_raises = [t \in {1} |-> {}]
    /\ pc = [t \in {1} |-> "done"]
    /\ exc = [t \in {1} |-> FALSE]
    /\ \E h \in GraphHolders :
          self = [t \in {1} |->
                    [NoObject EXCEPT !.cls = "SqlLineageSQLParser",
                                     !.engine = "SqlLineageSQLParser",
                                     !.sql_holder = h]]
    /\ original = [t \in {1} |-> NoOriginal]
    /\ out = [t \in {1} |-> NoOutput]
    /\ SourceHandler_end_of_query_cleanup = LibraryFunction
    /\ SubQueryLineageHolder_add_column_lineage = LibraryFunction

NextGraph == \E t \in {1} : get_columns(t) \/ get_tables(t)

SpecGraph == InitGraph /\ [][NextGraph]_vars

----------------------------------------------------------------------------
(* Properties.                                                              *)

Callers == DOMAIN pc

UsesSqlLineage(t) == self[t].engine = "SqlLineageSQLParser"
Called(t, method) == pc[t] = "done" /\ method \in out[t].calls

\* the statements of the query as the caller wrote it
WrittenStatements(t) == Range(SplitStatements(sql_query[t]))
SentinelWords == {W_date, W_timestamp}
Sentinels == {DATE_SWAP_TOKEN, TIMESTAMP_SWAP_TOKEN, MYVIEW_SQL_TABLE_NAME_TOKEN}

\* C1: the list get_tables returns is in ascending order and holds no name
\* twice, for each of the three classes.
C1_TablesSortedNoDuplicates ==
    \A t \in Callers :
        Called(t, "get_tables") =>
            IsSorted(out[t].tables) /\ NoDuplicates(out[t].tables)

\* C2: a table or column the query names date or timestamp (in any letter
\* case) is in the output of get_tables / get_columns exactly as written.
C2_SentinelRoundTrip ==
    \A t \in Callers :
        UsesSqlLineage(t) =>
            /\ Called(t, "get_tables") =>
                 \A st \in WrittenStatements(t) :
                    \A ref \in Range(ReadStatement(st).tables) :
                        ToLower(BaseName(ref)) \in SentinelWords
                            => ref \in Range(out[t].tables)
            /\ Called(t, "get_columns") =>
                 \A st \in WrittenStatements(t) :
                    \A it \in Range(ReadStatement(st).items) :
                        LET name == IF it.alias # <<>> THEN it.alias
                                    ELSE BaseName(it.expr)
                        IN  ToLower(name) \in SentinelWords
                                => name \in Range(out[t].columns)

\* C3: under every interleaving of concurrent constructions, each analysis
\* runs with both patched functions bound, so that every statement's holder
\* is the one a construction running alone obtains.
C3_ConcurrentConstructionsIsolated ==
    \A t \in Callers :
        \A i \in 1..Len(self[t].stmt_holders) :
            self[t].stmt_holders[i] =
                Analyze(self[t].stmt[i], PatchFunction, PatchFunction)

\* C4: when the analysis of some statements fails (and nothing else does),
\* construction still succeeds and the holder is the merge of the holders
\* of the other statements.
C4_FailedStatementSkipped ==
    \A t \in Callers :
        (/\ UsesSqlLineage(t)
         /\ pc[t] \in {"done", "raised"}
         /\ 0 \notin lib_raises[t])
        => /\ pc[t] = "done"
           /\ self[t].sql_holder =
                HolderOf([i \in 1..Len(self[t].stmt) |->
                            IF i \in lib_raises[t] THEN EmptyHolder
                            ELSE Analyze(self[t].stmt[i], PatchFunction, PatchFunction)])

\* the Column nodes no Column node derives from, without those whose name
\* holds '*', '(' or ')'
PlainTerminalColumns(h) ==
    {n \in h.nodes :
        /\ n.kind = "Column"
        /\ ~\E e \in h.edges : e[1] = n /\ e[2].kind = "Column"
        /\ \A i \in 1..Len(n.raw_name) : n.raw_name[i] \notin {"*", "(", ")"}}

\* the query holds a JOIN
HasJoin(t) ==
    \E st \in WrittenStatements(t) :
        \E tok \in Range(Tokens(st)) : ToLower(tok) = W_join

\* C5 (as claimed): for a query with a JOIN, get_columns returns the empty
\* list, whichever class was constructed.
C5_JoinPessimismEveryEngine ==
    \A t \in Callers :
        (Called(t, "get_columns") /\ HasJoin(t)) => out[t].columns = <<>>

\* C5 (amended): MetadataSQLSQLParser.get_columns returns the empty list
\* whenever the parser reports columns in a join section, and get_tables
\* still returns the parser's tables, sorted; SqlLineageSQLParser (and with
\* it DefaultSQLParser) answers a query with a JOIN like any other, with the
\* names of its plain terminal columns.
C5_JoinPessimismMetadata ==
    \A t \in Callers :
        /\ (/\ self[t].engine = "MetadataSQLSQLParser"
            /\ "join" \in DOMAIN self[t].parser.columns_dict)
           => /\ Called(t, "get_columns") => out[t].columns = <<>>
              /\ Called(t, "get_tables") =>
                   /\ Range(out[t].tables) = Range(self[t].parser.tables)
                   /\ Len(out[t].tables) = Len(self[t].parser.tables)
                   /\ IsSorted(out[t].tables)
        /\ (UsesSqlLineage(t) /\ HasJoin(t) /\ Called(t, "get_columns"))
           => Range(out[t].columns) =
                {SwapBack(SwapBack(n.raw_name, DATE_SWAP_TOKEN, W_date),
                          TIMESTAMP_SWAP_TOKEN, W_timestamp) :
                    n \in PlainTerminalColumns(self[t].sql_holder)}

\* C5 witness: a MetadataSQLSQLParser for a join query with a select column
\* has answered get_columns.
C5_Witness ==
    \E t \in Callers :
        /\ self[t].cls = "MetadataSQLSQLParser"
        /\ Called(t, "get_columns")
        /\ Called(t, "get_tables")
        /\ "join" \in DOMAIN self[t].parser.columns_dict
        /\ "select" \in DOMAIN self[t].parser.columns_dict
        /\ Len(out[t].tables) >= 2

\* C6: no name that get_tables or get_columns returns is or contains a
\* sentinel token.
C6_NoSentinelInOutput ==
    \A t \in Callers :
        UsesSqlLineage(t) =>
            \A name \in Range(out[t].tables) \cup Range(out[t].columns) :
                \A tok \in Sentinels : ~Contains(name, tok)

\* what SqlLineageSQLParser(q) holds once constructed without an exception
SqlLineageHolderFor(q) ==
    LET stmt == ParseStatements(SqlLineageRewrite(q))
    IN  HolderOf([i \in 1..Len(stmt) |-> Analyze(stmt[i], PatchFunction, PatchFunction)])

\* C7: a constructed DefaultSQLParser holds a SqlLineageSQLParser, never a
\* MetadataSQLSQLParser, and its get_tables / get_columns return what
\* SqlLineageSQLParser returns for the same query.
C7_DefaultIsSqlLineage ==
    \A t \in Callers :
        (self[t].cls = "DefaultSQLParser" /\ pc[t] = "done")
        => /\ self[t].engine = "SqlLineageSQLParser"
           /\ self[t].parser = EmptyMetadataParser
           /\ Called(t, "get_tables") =>
                \A order \in Orderings(SqlLineageHolderFor(sql_query[t]).source_tables) :
                    out[t].tables = SqlLineage_get_tables(order)
           /\ Called(t, "get_columns") =>
                /\ Range(out[t].columns) =
                     SqlLineage_get_columns(SqlLineageHolderFor(sql_query[t]))
                /\ NoDuplicates(out[t].columns)

\* C7 witness: a DefaultSQLParser has answered both methods with non-empty
\* results.
C7_Witness ==
    \E t \in Callers :
        /\ self[t].cls = "DefaultSQLParser"
        /\ Called(t, "get_tables") /\ Called(t, "get_columns")
        /\ out[t].tables # <<>>
        /\ out[t].columns # <<>>

\* C8: the text SqlLineageSQLParser hands to the parser holds no "${" and no
\* "}" (every "}" of the queries closes a placeholder).
C8_PlaceholdersUnwrapped ==
    \A t \in Callers :
        (UsesSqlLineage(t) /\ pc[t] # "idle")
        => /\ ~Contains(self[t].sql, W_open)
           /\ ~Contains(self[t].sql, W_close)

\* C9 (as claimed): get_columns returns exactly the raw names of the plain
\* terminal Column nodes, once each.
C9_ColumnsAreRawNames ==
    \A t \in Callers :
        (UsesSqlLineage(t) /\ Called(t, "get_columns"))
        => /\ Range(out[t].columns) =
                {n.raw_name : n \in PlainTerminalColumns(self[t].sql_holder)}
           /\ NoDuplicates(out[t].columns)

\* C9 (amended): get_columns returns, once each, the raw names of the plain
\* terminal Column nodes with the sentinels __d_a_t_e and __t_i_m_e_s_t_a_m_p
\* replaced by date and timestamp.
C9_ColumnsAreSwappedRawNames ==
    \A t \in Callers :
        (UsesSqlLineage(t) /\ Called(t, "get_columns"))
        => /\ Range(out[t].columns) =
                {IF n.raw_name = DATE_SWAP_TOKEN THEN W_date
                 ELSE IF n.raw_name = TIMESTAMP_SWAP_TOKEN THEN W_timestamp
                 ELSE n.raw_name : n \in PlainTerminalColumns(self[t].sql_holder)}
           /\ NoDuplicates(out[t].columns)

\* C9 witness: get_columns has answered for a graph in which a Column named
\* b is consumed by another Column, a terminal Column has an edge to a Table,
\* and a terminal Column is an expression.
C9_Witness ==
    \E t \in Callers :
        /\ Called(t, "get_columns")
        /\ <<N_t_b, N_count>> \in self[t].sql_holder.edges
        /\ <<N_count, N_table>> \in self[t].sql_holder.edges
        /\ N_u_a \in self[t].sql_holder.nodes
        /\ Range(out[t].columns) = {<<"a">>}

\* C10: with one caller, SourceHandler.end_of_query_cleanup is bound to the
\* patch exactly between the entry and the exit of the outer with block, and
\* SubQueryLineageHolder.add_column_lineage exactly between those of the
\* inner one; before and after a construction, however it ends, both are
\* the library's functions.
C10_PatchScoped ==
    \A t \in Callers :
        /\ SourceHandler_end_of_query_cleanup =
             (IF pc[t] \in {"with_column_lineage", "analyze",
                            "exit_column_lineage", "exit_cleanup"}
              THEN PatchFunction ELSE LibraryFunction)
        /\ SubQueryLineageHolder_add_column_lineage =
             (IF pc[t] \in {"analyze", "exit_column_lineage"}
              THEN PatchFunction ELSE LibraryFunction)

\* C10 witness: a construction has ended with an exception raised by the
\* analysis of a statement.
C10_Witness ==
    \E t \in Callers :
        /\ pc[t] = "raised"
        /\ lib_raises[t] = {1}
        /\ self[t].stmt # <<>>

====
